---- MODULE Spec2Model ----
(***************************************************************************)
(* Model of the mailviewer facade (src/src/mailservice.rs, MailService)    *)
(* and of the HTML rendering path of the window (src/src/window.rs).       *)
(*                                                                         *)
(* Strings that the code takes apart or puts together (paths, titles,      *)
(* error messages) are sequences of one-character strings, so that         *)
(* Path::file_name and format! are computed, not assumed.                  *)
(***************************************************************************)
EXTENDS Naturals, Integers, Sequences, FiniteSets, TLC

(***************************************************************************)
(* Bounds                                                                  *)
(***************************************************************************)
\* longest path handed to open_message
MaxPathLen == 2

\* longest HTML body, in tokens, handed to the sanitizer
MaxHtmlLen == 3

\* most messages one window is asked to show
MaxShows == 2

\* farthest the zoom buttons are followed from 1.0, in steps of 0.1
MaxZoomSteps == 1

\* nested callbacks the history keeps of a recursion that overflows the stack
MaxNesting == 2

(***************************************************************************)
(* Option<T> and Result<(), Box<dyn Error>>                                *)
(***************************************************************************)
None == <<>>

Some(v) == <<v>>

Ok == [ok |-> TRUE, msg |-> <<>>]

Err(m) == [ok |-> FALSE, msg |-> m]

(***************************************************************************)
(* Strings as character sequences                                          *)
(***************************************************************************)
RECURSIVE SeqsUpTo(_, _)
SeqsUpTo(S, n) ==
  IF n = 0 THEN {<<>>}
  ELSE LET shorter == SeqsUpTo(S, n - 1)
       IN  shorter \cup {Append(s, c) : s \in {t \in shorter : Len(t) = n - 1}, c \in S}

\* characters paths are built from: a name character and the separator
PathChars == {"a", "/"}

\* paths with the "." and ".." pieces Path::components treats specially
DotPaths ==
  {<<".">>, <<".", ".">>, <<"a", "/", ".">>, <<".", "/", "a">>}

\* the paths callers hand to open_message
Paths == SeqsUpTo(PathChars, MaxPathLen) \cup DotPaths

\* s occurs in t as a contiguous substring
Contains(t, s) ==
  \E i \in 0..(Len(t) - Len(s)) : SubSeq(t, i + 1, i + Len(s)) = s

(***************************************************************************)
(* std::path::Path::file_name, as mailservice.rs uses it in get_title      *)
(***************************************************************************)
\* the pieces of path between separators, empty pieces included
RECURSIVE SplitPath(_)
SplitPath(path) ==
  IF \A i \in 1..Len(path) : path[i] # "/" THEN <<path>>
  ELSE LET k == CHOOSE i \in 1..Len(path) :
                  path[i] = "/" /\ \A j \in 1..(i - 1) : path[j] # "/"
       IN  <<SubSeq(path, 1, k - 1)>> \o SplitPath(SubSeq(path, k + 1, Len(path)))

\* Path::components: repeated separators and "." are dropped, except a
\* leading "." of a relative path; a leading separator is the root
PathComponents(path) ==
  LET raw  == SplitPath(path)
      root == IF Len(path) > 0 /\ path[1] = "/" THEN <<[kind |-> "RootDir", name |-> <<>>]>> ELSE <<>>
      RECURSIVE Walk(_)
      Walk(i) ==
        IF i > Len(raw) THEN <<>>
        ELSE LET c == raw[i]
                 here == IF c = <<>> THEN <<>>
                         ELSE IF c = <<".">>
                              THEN (IF i = 1 THEN <<[kind |-> "CurDir", name |-> c]>> ELSE <<>>)
                         ELSE IF c = <<".", ".">> THEN <<[kind |-> "ParentDir", name |-> c]>>
                         ELSE <<[kind |-> "Normal", name |-> c]>>
             IN  here \o Walk(i + 1)
  IN  root \o Walk(1)

\* Path::file_name: the last component, if it is a normal one
file_name(path) ==
  LET cs == PathComponents(path)
  IN  IF Len(cs) = 0 THEN None
      ELSE IF cs[Len(cs)].kind = "Normal" THEN Some(cs[Len(cs)].name)
      ELSE None

(***************************************************************************)
(* What the parser and the file system hand to the facade                  *)
(***************************************************************************)
\* the message of the repository's sample.eml, as the tests pin it
SampleMessage ==
  [from        |-> "John Doe <john@moon.space>",
   to          |-> "Lucas <lucas@mercure.space>",
   subject     |-> "Lorem ipsum",
   date        |-> "2024-10-23 12:27:21",
   body_text   |-> Some("Lorem ipsum dolor sit amet, consectetur adipiscing elit"),
   body_html   |-> Some("Hello Lucas,"),
   attachments |-> <<[filename |-> "Deus_Gnome.png"]>>]

\* a second message: text only, no attachment
PlainMessage ==
  [from        |-> "Lucas <lucas@mercure.space>",
   to          |-> "John Doe <john@moon.space>",
   subject     |-> "Re: Lorem ipsum",
   date        |-> "2024-10-24 08:00:00",
   body_text   |-> Some("Thanks"),
   body_html   |-> None,
   attachments |-> <<>>]

\* what MessageParser::parse can leave in the parser for an existing file
Messages == {SampleMessage, PlainMessage}

\* what a path can be on disk when open_message looks at it: "missing"
\* (Path::exists is false), "unparsable" (it exists and the parse fails) or
\* "parsable". The empty path never exists; a path whose last piece is not a
\* name (root, ".", "..", a trailing separator) can name a directory only,
\* which no parse reads as a message.
FileStates(fullpath) ==
  IF fullpath = <<>> THEN {"missing"}
  ELSE IF file_name(fullpath) = None
          \/ fullpath[Len(fullpath)] = "/"
          \/ SplitPath(fullpath)[Len(SplitPath(fullpath))] = <<".">>
       THEN {"missing", "unparsable"}
  ELSE {"missing", "unparsable", "parsable"}

\* what MessageParser::parse leaves for a file in that state
ParseOutcomes(file) ==
  IF file = "parsable" THEN {Some(m) : m \in Messages} ELSE {None}

\* the text of the error MessageParser::parse returns for a file it rejects
ParseErrorText(fullpath) ==
  <<"P", "a", "r", "s", "e", " ", "e", "r", "r", "o", "r", " ", ":", " ">> \o fullpath

\* crate::config::VERSION
VERSION == <<"1", ".", "0">>

\* the callbacks a caller may register
Handlers == {"f", "g"}

(***************************************************************************)
(* Html::new(html, force_css).safe(), the sanitizer window.rs calls        *)
(* An HTML body is a sequence of tokens (tag soup).                        *)
(***************************************************************************)
\* the style element the sanitizer puts in when force_css is set
BaselineStyle == "<style>baseline</style>"

HtmlTokens ==
  {"text", "<script>", "</script>", "<img onerror=x>", "<img src=http://x>", "<img>",
   "<style>x</style>", BaselineStyle, "<div>", "</div>"}

HtmlInputs == SeqsUpTo(HtmlTokens, MaxHtmlLen)

\* script elements go with all they contain; an unclosed one runs to the
\* end of the input, a stray closing tag goes too
RECURSIVE StripScripts(_, _)
StripScripts(x, inScript) ==
  IF x = <<>> THEN <<>>
  ELSE IF inScript THEN StripScripts(Tail(x), Head(x) # "</script>")
  ELSE IF Head(x) = "<script>" THEN StripScripts(Tail(x), TRUE)
  ELSE IF Head(x) = "</script>" THEN StripScripts(Tail(x), FALSE)
  ELSE <<Head(x)>> \o StripScripts(Tail(x), FALSE)

\* event-handler attributes and remote sources are taken off an element
Neutralize(tok) ==
  IF tok \in {"<img onerror=x>", "<img src=http://x>"} THEN "<img>" ELSE tok

\* style elements are dropped
RECURSIVE StripStyles(_)
StripStyles(x) ==
  IF x = <<>> THEN <<>>
  ELSE IF Head(x) \in {"<style>x</style>", BaselineStyle} THEN StripStyles(Tail(x))
  ELSE <<Head(x)>> \o StripStyles(Tail(x))

\* well-formed output: a closing tag with nothing open is dropped, what is
\* still open at the end is closed
RECURSIVE AutoClose(_, _)
AutoClose(x, depth) ==
  IF x = <<>> THEN [i \in 1..depth |-> "</div>"]
  ELSE IF Head(x) = "<div>" THEN <<"<div>">> \o AutoClose(Tail(x), depth + 1)
  ELSE IF Head(x) = "</div>"
       THEN (IF depth = 0 THEN AutoClose(Tail(x), 0)
             ELSE <<"</div>">> \o AutoClose(Tail(x), depth - 1))
  ELSE <<Head(x)>> \o AutoClose(Tail(x), depth)

\* a force_css that adds the baseline style to whatever styles are there
ForceCss_additive(x) == <<BaselineStyle>> \o x

\* force_css: the styles of the message give way to the baseline style
ForceCss(x) == <<BaselineStyle>> \o StripStyles(x)

sanitize(x, force_css) ==
  LET noscript == StripScripts(x, FALSE)
      neutral  == [i \in 1..Len(noscript) |-> Neutralize(noscript[i])]
      styled   == IF force_css THEN ForceCss(neutral) ELSE neutral
  IN  AutoClose(styled, 0)

\* the sanitizer at work
VARIABLES
  san_html,             \* an HTML body to sanitize
  san_force,            \* the force_css value it is sanitized with
  san_once,             \* sanitize(san_html, san_force), once computed
  san_twice             \* sanitize of san_once, once computed

(***************************************************************************)
(* MailService                                                             *)
(***************************************************************************)
VARIABLES
  parser,               \* RefCell<Option<MessageParser>>
  full_path,            \* RefCell<Option<String>>
  show_file_name,       \* RefCell<bool>
  signal_title_changed, \* RefCell<Option<Box<dyn Fn(&Self, &str)>>>
  held_from,            \* history: the path the held message was parsed from
  last                  \* history: the last call, its result and the callbacks it ran

\* the window
VARIABLES
  win,                  \* imp::MailViewerWindow: widgets, web view, html cell
  wlast                 \* history: the last event handled and what it did

win_vars == <<win, wlast>>

\* a handler that calls back into the facade
VARIABLES
  reentry               \* history: what the handler run last did, how it ended

re_vars == <<reentry>>

facade_vars == <<parser, full_path, show_file_name, signal_title_changed, held_from, last>>

san_vars == <<san_html, san_force, san_once, san_twice>>

vars == <<facade_vars, san_vars, re_vars, win_vars>>

\* the facade as one value
Self ==
  [parser               |-> parser,
   full_path            |-> full_path,
   show_file_name       |-> show_file_name,
   signal_title_changed |-> signal_title_changed]

\* a facade that starts with the application title preferred
new_app_title ==
  [parser               |-> None,
   full_path            |-> None,
   show_file_name       |-> FALSE,
   signal_title_changed |-> None]

\* MailService::new
new ==
  [parser               |-> None,
   full_path            |-> None,
   show_file_name       |-> TRUE,
   signal_title_changed |-> None]

from(s) == IF s.parser # None THEN s.parser[1].from ELSE ""

to(s) == IF s.parser # None THEN s.parser[1].to ELSE ""

subject(s) == IF s.parser # None THEN s.parser[1].subject ELSE ""

date(s) == IF s.parser # None THEN s.parser[1].date ELSE ""

body_text(s) == IF s.parser # None THEN s.parser[1].body_text ELSE None

body_html(s) == IF s.parser # None THEN s.parser[1].body_html ELSE None

attachments(s) == IF s.parser # None THEN s.parser[1].attachments ELSE <<>>

get_fullpath(s) == s.full_path

\* what the seven message accessors return
HeldMessage(s) ==
  [from        |-> from(s),
   to          |-> to(s),
   subject     |-> subject(s),
   date        |-> date(s),
   body_text   |-> body_text(s),
   body_html   |-> body_html(s),
   attachments |-> attachments(s)]

\* everything a caller can read from the facade at one moment
Accessors(s) ==
  [from        |-> from(s),
   to          |-> to(s),
   subject     |-> subject(s),
   date        |-> date(s),
   body_text   |-> body_text(s),
   body_html   |-> body_html(s),
   attachments |-> attachments(s),
   fullpath    |-> get_fullpath(s)]

\* format!("Mail Viewer v{}", VERSION)
AppTitle ==
  <<"M", "a", "i", "l", " ", "V", "i", "e", "w", "e", "r", " ", "v">> \o VERSION

\* a title that ignores the preference
get_title_always_file(s, fullpath) ==
  IF file_name(fullpath) # None THEN file_name(fullpath)[1] ELSE AppTitle

get_title(s, fullpath) ==
  IF s.show_file_name /\ file_name(fullpath) # None
  THEN file_name(fullpath)[1]
  ELSE AppTitle

\* the callback invocations update_title makes: none or one. Each is
\* recorded with the handler run, the title passed and what the handler
\* reads from the facade it is passed.
update_title(s) ==
  IF s.signal_title_changed # None /\ s.full_path # None
  THEN <<[handler |-> s.signal_title_changed[1],
          title   |-> get_title(s, s.full_path[1]),
          seen    |-> Accessors(s)]>>
  ELSE <<>>

\* an error text that names the file without its directory
FileNotFoundText_base(fullpath) ==
  <<"F", "i", "l", "e", " ", "n", "o", "t", " ", "f", "o", "u", "n", "d", " ", ":", " ">>
    \o (IF file_name(fullpath) # None THEN file_name(fullpath)[1] ELSE <<>>)

\* format!("File not found : {}", fullpath)
FileNotFoundText(fullpath) ==
  <<"F", "i", "l", "e", " ", "n", "o", "t", " ", "f", "o", "u", "n", "d", " ", ":", " ">>
    \o fullpath

\* an open_message that stores the path before it looks for the file
open_message_on_path_first(s, fullpath, file, parsed) ==
  LET s1 == [s EXCEPT !.full_path = Some(fullpath)]
  IN  IF file = "missing"
      THEN [self |-> s1, result |-> Err(FileNotFoundText(fullpath)), calls |-> <<>>]
      ELSE IF file = "unparsable"
      THEN [self |-> s1, result |-> Err(ParseErrorText(fullpath)), calls |-> <<>>]
      ELSE LET s2 == [s1 EXCEPT !.parser = parsed]
           IN  [self |-> s2, result |-> Ok, calls |-> update_title(s2)]

\* an open_message that raises the notification before it stores the parser
open_message_on_notify_first(s, fullpath, file, parsed) ==
  IF file = "missing"
  THEN [self |-> s, result |-> Err(FileNotFoundText(fullpath)), calls |-> <<>>]
  ELSE LET s1 == [s EXCEPT !.full_path = Some(fullpath)]
       IN  IF file = "unparsable"
           THEN [self |-> s1, result |-> Err(ParseErrorText(fullpath)), calls |-> <<>>]
           ELSE LET s2 == [s1 EXCEPT !.parser = parsed]
                IN  [self |-> s2, result |-> Ok, calls |-> update_title(s1)]

\* an open_message that gives up the held message before it parses
open_message_on_drop_first(s, fullpath, file, parsed) ==
  IF file = "missing"
  THEN [self |-> s, result |-> Err(FileNotFoundText(fullpath)), calls |-> <<>>]
  ELSE LET s1 == [s EXCEPT !.full_path = Some(fullpath), !.parser = None]
       IN  IF file = "unparsable"
           THEN [self |-> s1, result |-> Err(ParseErrorText(fullpath)), calls |-> <<>>]
           ELSE LET s2 == [s1 EXCEPT !.parser = parsed]
                IN  [self |-> s2, result |-> Ok, calls |-> update_title(s2)]

\* open_message on facade s, for a path in state file whose parse leaves
\* parsed (Some message, or None when there is no parse or it fails): the
\* facade afterwards, the result, the callbacks run
open_message_on(s, fullpath, file, parsed) ==
  IF file = "missing"
  THEN [self |-> s, result |-> Err(FileNotFoundText(fullpath)), calls |-> <<>>]
  ELSE LET s1 == [s EXCEPT !.full_path = Some(fullpath)]
       IN  IF file = "unparsable"
           THEN [self |-> s1, result |-> Err(ParseErrorText(fullpath)), calls |-> <<>>]
           ELSE LET s2 == [s1 EXCEPT !.parser = parsed]
                IN  [self |-> s2, result |-> Ok, calls |-> update_title(s2)]

\* a setter that stores the preference and tells no one
set_show_file_name_on_silent(s, show) ==
  [self |-> [s EXCEPT !.show_file_name = show], calls |-> <<>>]

set_show_file_name_on(s, show) ==
  LET s1 == [s EXCEPT !.show_file_name = show]
  IN  [self |-> s1, calls |-> update_title(s1)]

\* a connect that keeps a handler already registered
connect_title_changed_on_keep_first(s, f) ==
  [self |-> IF s.signal_title_changed = None
            THEN [s EXCEPT !.signal_title_changed = Some(f)]
            ELSE s,
   calls |-> <<>>]

\* a connect that announces the title to the new handler at once
connect_title_changed_on_notifying(s, f) ==
  LET s1 == [s EXCEPT !.signal_title_changed = Some(f)]
  IN  [self |-> s1, calls |-> update_title(s1)]

connect_title_changed_on(s, f) ==
  [self |-> [s EXCEPT !.signal_title_changed = Some(f)], calls |-> <<>>]

\* the facade variables take the fields of s
Becomes(s) ==
  /\ parser' = s.parser
  /\ full_path' = s.full_path
  /\ show_file_name' = s.show_file_name
  /\ signal_title_changed' = s.signal_title_changed

\* a call as the history keeps it: the operation, its arguments, what the
\* path was on disk, the message the parse yielded, the observer slot a
\* connect_title_changed found, the result, the callbacks
Call(op, fullpath, file, parsed, flag, handler, slot, result, calls) ==
  [op |-> op, fullpath |-> fullpath, file |-> file, parsed |-> parsed,
   flag |-> flag, handler |-> handler, slot |-> slot, result |-> result,
   calls |-> calls]

(***************************************************************************)
(* MailViewerWindow (window.rs)                                            *)
(***************************************************************************)
\* the HTML bodies of the messages shown
HtmlBodies ==
  {<<"<div>", "<style>x</style>", "<script>">>, <<"<img src=http://x>", "text">>}

\* a text body with a CR LF line end in it
TextBody == <<"a", "CR", "LF", "b">>

\* the parsed messages (MailParser) a window is asked to show: with both
\* bodies, with one of them, with none; with and without attachments
WinMessage(text, html, files) ==
  [from        |-> "John Doe <john@moon.space>",
   to          |-> "Lucas <lucas@mercure.space>",
   subject     |-> "Lorem ipsum",
   date        |-> "2024-10-23 12:27:21",
   body_text   |-> text,
   body_html   |-> html,
   attachments |-> files]

WinMessages ==
  {WinMessage(text, html, <<>>) :
     text \in {None, Some(TextBody)}, html \in {None} \cup {Some(h) : h \in HtmlBodies}}
  \cup {WinMessage(Some(TextBody), None, <<"Deus_Gnome.png">>),
        WinMessage(None, Some(<<"<img src=http://x>", "text">>),
                   <<"Deus_Gnome.png", "notes.txt">>)}

\* text.replace("\r\n", "\n")
RECURSIVE ReplaceCrLf(_)
ReplaceCrLf(text) ==
  IF text = <<>> THEN <<>>
  ELSE IF Len(text) >= 2 /\ text[1] = "CR" /\ text[2] = "LF"
       THEN <<"LF">> \o ReplaceCrLf(SubSeq(text, 3, Len(text)))
  ELSE <<Head(text)>> \o ReplaceCrLf(Tail(text))

\* s begins with prefix
StartsWith(s, prefix) ==
  Len(s) >= Len(prefix) /\ SubSeq(s, 1, Len(prefix)) = prefix

AboutPrefix == <<"a", "b", "o", "u", "t", ":">>

\* the URIs of the requests the web view asks about
Uris ==
  {AboutPrefix, AboutPrefix \o <<"b", "l", "a", "n", "k">>,
   <<"a", "b", "o", "u", "t">>, <<"x">> \o AboutPrefix,
   <<"h", "t", "t", "p", ":", "/", "/", "x">>,
   <<"h", "t", "t", "p", ":", "/", "/", "x", "/">> \o AboutPrefix,
   <<"m", "a", "i", "l", "t", "o", ":", "a">>, <<>>}

PolicyDecisionTypes == {"NavigationAction", "NewWindowAction", "ResponseAction"}

\* the window as the template (window.ui) and Default build it, before
\* initialize: the toggles as the template sets them, WebKit's default
\* settings, an empty html cell
Template(force_active, images_active, text_active, page) ==
  [html         |-> None,
   source_html  |-> None,
   web_view     |-> [loaded |-> None, zoom_level |-> 10],
   web_settings |-> [enable_javascript |-> TRUE, auto_load_images |-> TRUE],
   settings     |-> [zoom |-> 10],
   force_css    |-> [active |-> force_active, visible |-> TRUE],
   show_images  |-> [active |-> images_active, visible |-> TRUE],
   show_text    |-> [active |-> text_active, visible |-> TRUE],
   zoom_minus   |-> [visible |-> TRUE],
   zoom_plus    |-> [visible |-> TRUE],
   stack        |-> page,
   eml_from     |-> "",
   eml_to       |-> "",
   eml_subject  |-> "",
   eml_date     |-> "",
   body_text    |-> <<>>,
   attachments  |-> [title |-> <<>>, rows |-> <<>>],
   pull_label   |-> <<>>,
   images_clicks |-> 0,
   shows        |-> 0,
   aborted      |-> FALSE]

\* an initialize that leaves image loading as WebKit has it
initialize_images_on(w) ==
  [w EXCEPT !.web_settings = [enable_javascript |-> FALSE, auto_load_images |-> TRUE],
            !.web_view.zoom_level = w.settings.zoom]

\* MailViewerWindow::initialize
initialize(w) ==
  [w EXCEPT !.web_settings = [enable_javascript |-> FALSE, auto_load_images |-> FALSE],
            !.web_view.zoom_level = w.settings.zoom]

\* what a handler did: the window it leaves, the documents it loaded into
\* the web view (with the force_css each was made with), the alerts it raised
Effects(w, loads, alerts) == [win |-> w, loads |-> loads, alerts |-> alerts]

\* a load_html that sanitizes what the web view shows
load_html_from_view(w, force_css) ==
  IF w.html # None
  THEN LET src == IF w.web_view.loaded # None THEN w.web_view.loaded[1] ELSE w.html[1]
           doc == sanitize(src, force_css)
       IN  Effects([w EXCEPT !.web_view.loaded = Some(doc)],
                   <<[doc |-> doc, force_css |-> force_css]>>, <<>>)
  ELSE Effects(w, <<>>, <<[title |-> "Error", message |-> "HTML not set"]>>)

\* MailViewerWindow::load_html
load_html(w, force_css) ==
  IF w.html # None
  THEN LET doc == sanitize(w.html[1], force_css)
       IN  Effects([w EXCEPT !.web_view.loaded = Some(doc)],
                   <<[doc |-> doc, force_css |-> force_css]>>, <<>>)
  ELSE Effects(w, <<>>, <<[title |-> "Error", message |-> "HTML not set"]>>)

\* an on_show_text that leaves the zoom buttons as they are
on_show_text_keeps_zoom(w, show) ==
  [w EXCEPT !.stack = IF show THEN "text" ELSE "html",
            !.show_images.visible = ~show,
            !.force_css.visible = ~show]

\* MailViewerWindow::on_show_text
on_show_text(w, show) ==
  [w EXCEPT !.stack = IF show THEN "text" ELSE "html",
            !.show_images.visible = ~show,
            !.force_css.visible = ~show,
            !.zoom_minus.visible = ~show,
            !.zoom_plus.visible = ~show]

\* MailViewerWindow::set_zoom_level
set_zoom_level(w, zoom) ==
  [w EXCEPT !.web_view.zoom_level = zoom, !.settings.zoom = zoom]

\* format!("{} attachment{}", total, if total == 1 { "" } else { "s" })
AttachmentsLabel(total) ==
  <<total, " attachment" \o (IF total = 1 THEN "" ELSE "s")>>

\* show_eml from the attachments on: a row for each, then the labels
ShowAttachments(w, eml) ==
  LET total == Len(eml.attachments)
  IN  IF total > 0
      THEN [w EXCEPT !.attachments.rows = @ \o eml.attachments,
                     !.attachments.title = AttachmentsLabel(total),
                     !.pull_label = AttachmentsLabel(total)]
      ELSE [w EXCEPT !.pull_label = <<"No attachments">>]

\* show_eml from the has_text / has_html branches on
ShowBodies(w, eml) ==
  LET has_text == eml.body_text # None
      has_html == eml.body_html # None
      w1 == IF has_text /\ ~has_html
            THEN [on_show_text(w, TRUE) EXCEPT !.show_text.visible = FALSE]
            ELSE IF ~has_text /\ has_html
            THEN [w EXCEPT !.show_text.visible = FALSE]
            ELSE w
  IN  ShowAttachments(w1, eml)

\* a show_eml that puts the new HTML in place of the stored one
show_eml_replacing(w, eml) ==
  LET w1 == [w EXCEPT !.eml_from = eml.from, !.eml_date = eml.date,
                      !.eml_to = eml.to, !.eml_subject = eml.subject,
                      !.shows = @ + 1]
      w2 == IF eml.body_text # None
            THEN [w1 EXCEPT !.body_text = ReplaceCrLf(eml.body_text[1])]
            ELSE w1
  IN  IF eml.body_html # None
      THEN LET doc == sanitize(eml.body_html[1], FALSE)
               w3  == [w2 EXCEPT !.html = eml.body_html,
                                 !.source_html = eml.body_html,
                                 !.web_view.loaded = Some(doc)]
           IN  Effects(ShowBodies(w3, eml),
                       <<[doc |-> doc, force_css |-> FALSE]>>, <<>>)
      ELSE Effects(ShowBodies(w2, eml), <<>>, <<>>)

\* MailViewerWindow::show_eml; OnceCell::set on a set cell is an Err, which
\* expect("HTML already set.") turns into a panic
show_eml(w, eml) ==
  LET w1 == [w EXCEPT !.eml_from = eml.from, !.eml_date = eml.date,
                      !.eml_to = eml.to, !.eml_subject = eml.subject,
                      !.shows = @ + 1]
      w2 == IF eml.body_text # None
            THEN [w1 EXCEPT !.body_text = ReplaceCrLf(eml.body_text[1])]
            ELSE w1
  IN  IF eml.body_html # None
      THEN IF w2.html # None
           THEN Effects([w2 EXCEPT !.aborted = TRUE], <<>>, <<>>)
           ELSE LET doc == sanitize(eml.body_html[1], FALSE)
                    w3  == [w2 EXCEPT !.html = eml.body_html,
                                      !.source_html = eml.body_html,
                                      !.web_view.loaded = Some(doc)]
                IN  Effects(ShowBodies(w3, eml),
                            <<[doc |-> doc, force_css |-> FALSE]>>, <<>>)
      ELSE Effects(ShowBodies(w2, eml), <<>>, <<>>)

\* the error open::that gives when it cannot launch an opener
OpenError == "Launcher failed"

\* the answer of on_decide_policy: what it returns (TRUE: handled here), if
\* it called policy.ignore(), the URI it gave to open::that, its alerts, if
\* an expect panicked
Decision(handled, ignored, opened, alerts, panicked) ==
  [handled |-> handled, ignored |-> ignored, opened |-> opened, alerts |-> alerts,
   panicked |-> panicked]

\* an on_decide_policy that looks for "about:" anywhere in the URI
on_decide_policy_contains(decision_type, navigation_action, request, uri, open_ok) ==
  IF decision_type \in {"NavigationAction", "NewWindowAction"} /\ navigation_action
  THEN IF ~request THEN Decision(FALSE, FALSE, None, <<>>, TRUE)
       ELSE IF uri # None /\ Contains(uri[1], AboutPrefix)
       THEN Decision(FALSE, FALSE, None, <<>>, FALSE)
       ELSE IF uri # None
       THEN Decision(TRUE, TRUE, uri,
                     IF open_ok THEN <<>>
                     ELSE <<[title |-> "WebView Error",
                             message |-> "Failed to open url: " \o OpenError]>>,
                     FALSE)
       ELSE Decision(TRUE, TRUE, None, <<>>, FALSE)
  ELSE Decision(FALSE, FALSE, None, <<>>, FALSE)

\* MailViewerWindow::on_decide_policy, for a decision of decision_type that
\* carries a navigation action or not, whose action has a request or not,
\* whose request has the URI uri or none; open_ok: open::that succeeds
on_decide_policy(decision_type, navigation_action, request, uri, open_ok) ==
  IF decision_type \in {"NavigationAction", "NewWindowAction"} /\ navigation_action
  THEN IF ~request THEN Decision(FALSE, FALSE, None, <<>>, TRUE)
       ELSE IF uri # None /\ StartsWith(uri[1], AboutPrefix)
       THEN Decision(FALSE, FALSE, None, <<>>, FALSE)
       ELSE IF uri # None
       THEN Decision(TRUE, TRUE, uri,
                     IF open_ok THEN <<>>
                     ELSE <<[title |-> "WebView Error",
                             message |-> "Failed to open url: " \o OpenError]>>,
                     FALSE)
       ELSE Decision(TRUE, TRUE, None, <<>>, FALSE)
  ELSE Decision(FALSE, FALSE, None, <<>>, FALSE)

NoDecision == Decision(FALSE, FALSE, None, <<>>, FALSE)

\* an event as the history keeps it: the handler, its argument, the
\* documents loaded, the alerts raised, the policy decision taken, the html
\* cell and the web view's document before the event
Event(op, arg, loads, alerts, decision, before) ==
  [op |-> op, arg |-> arg, loads |-> loads, alerts |-> alerts, decision |-> decision,
   before |-> before]

\* the window of the specifications that are not about it
WinIdle ==
  /\ win = initialize(Template(FALSE, FALSE, FALSE, "html"))
  /\ wlast = Event("new", None, <<>>, <<>>, NoDecision, None)

FacadeInit ==
  /\ parser = new.parser
  /\ full_path = new.full_path
  /\ show_file_name = new.show_file_name
  /\ signal_title_changed = new.signal_title_changed
  /\ held_from = None
  /\ last = Call("new", <<>>, "", None, FALSE, "", None, Ok, <<>>)

Init ==
  /\ FacadeInit
  /\ reentry = None
  /\ WinIdle
  /\ san_html = <<>>
  /\ san_force = FALSE
  /\ san_once = None
  /\ san_twice = None

open_message ==
  /\ UNCHANGED <<san_vars, re_vars, win_vars>>
  /\ \E fullpath \in Paths : \E file \in FileStates(fullpath) :
       \E parsed \in ParseOutcomes(file) :
         LET r == open_message_on(Self, fullpath, file, parsed)
         IN  /\ Becomes(r.self)
             /\ held_from' = IF r.result.ok THEN Some(fullpath) ELSE held_from
             /\ last' = Call("open_message", fullpath, file, parsed, FALSE, "", None,
                             r.result, r.calls)

set_show_file_name ==
  /\ UNCHANGED <<san_vars, re_vars, win_vars>>
  /\ \E show \in BOOLEAN :
       LET r == set_show_file_name_on(Self, show)
       IN  /\ Becomes(r.self)
           /\ UNCHANGED held_from
           /\ last' = Call("set_show_file_name", <<>>, "", None, show, "", None, Ok,
                           r.calls)

connect_title_changed ==
  /\ UNCHANGED <<san_vars, re_vars, win_vars>>
  /\ \E f \in Handlers :
       LET r == connect_title_changed_on(Self, f)
       IN  /\ Becomes(r.self)
           /\ UNCHANGED held_from
           /\ last' = Call("connect_title_changed", <<>>, "", None, FALSE, f,
                           signal_title_changed, Ok, r.calls)

Next == open_message \/ set_show_file_name \/ connect_title_changed

Spec == Init /\ [][Next]_vars

(***************************************************************************)
(* Handlers that call back into the facade while update_title runs them    *)
(***************************************************************************)
\* what a handler does with the facade it is passed: read the accessors and
\* get_fullpath, call open_message (on a missing file, on an existing one
\* that fails to parse, on one that parses), call connect_title_changed, or
\* call set_show_file_name (the first time it runs only, or every time)
HandlerBodies ==
  {"read", "open_missing", "open_unparsable", "open_parsable", "connect",
   "show_once", "show_always"}

\* the path, the message and the handler such a re-entrant call passes
ReentryPath == <<"a", "a">>

ReentryMessage == PlainMessage

ReentryHandler == "g"

\* the flag a handler passes to set_show_file_name
ReentryShow == FALSE

\* a callback run on clones, with no RefCell borrowed
HandlerBorrows_released == {}

\* the RefCells update_title keeps borrowed (shared) while the callback runs
HandlerBorrows == {"signal_title_changed", "full_path"}

\* what running a handler gave: the facade after it, how it ended, the
\* callbacks made from inside it
Ran(s, outcome, calls) == [self |-> s, outcome |-> outcome, calls |-> calls]

\* the handler body run on facade s while the cells in borrows are borrowed:
\* RefCell::borrow_mut on a borrowed cell panics, a shared borrow does not.
\* set_show_file_name writes show_file_name, which update_title leaves free,
\* and its update_title runs the handler again, nested: a handler that
\* calls it the first time only returns from the second run; one that
\* calls it every time recurses until the stack overflows, and the history
\* keeps the first MaxNesting of its nested callbacks
RunHandler(s, body, borrows) ==
  IF body = "read" THEN Ran(s, "completed", <<>>)
  ELSE IF body = "open_missing" THEN Ran(s, "completed", <<>>)
  ELSE IF body \in {"show_once", "show_always"}
  THEN IF "show_file_name" \in borrows
       THEN Ran(s, "panicked", <<>>)
       ELSE LET r == set_show_file_name_on(s, ReentryShow)
            IN  IF body = "show_once" \/ r.calls = <<>>
                THEN Ran(r.self, "completed", r.calls)
                ELSE Ran(r.self, "overflowed", [i \in 1..MaxNesting |-> r.calls[1]])
  ELSE IF body = "connect"
  THEN IF "signal_title_changed" \in borrows
       THEN Ran(s, "panicked", <<>>)
       ELSE Ran(connect_title_changed_on(s, ReentryHandler).self, "completed", <<>>)
  ELSE IF "full_path" \in borrows
  THEN Ran(s, "panicked", <<>>)
  ELSE IF body = "open_unparsable"
  THEN Ran(open_message_on(s, ReentryPath, "unparsable", None).self, "completed", <<>>)
  ELSE IF "parser" \in borrows
  THEN Ran([s EXCEPT !.full_path = Some(ReentryPath)], "panicked", <<>>)
  ELSE Ran(open_message_on(s, ReentryPath, "parsable", Some(ReentryMessage)).self,
           "completed", <<>>)

\* the process is unwinding from a panic, or has aborted on a stack overflow
Panicked == reentry # None /\ reentry[1].outcome \in {"panicked", "overflowed"}

\* a facade call r, made of its own effect and of what the handler it runs
\* does; held is the history of the held message's path, call the history
\* of the call
ReFinish(r, held, call) ==
  IF r.calls = <<>>
  THEN /\ last' = call
       /\ Becomes(r.self)
       /\ held_from' = held
       /\ reentry' = None
  ELSE \E body \in HandlerBodies :
         LET h == RunHandler(r.self, body, HandlerBorrows)
         IN  /\ last' = [call EXCEPT !.calls = @ \o h.calls]
             /\ Becomes(h.self)
             /\ held_from' = IF body = "open_parsable" /\ h.outcome = "completed"
                             THEN Some(ReentryPath) ELSE held
             /\ reentry' = Some([body |-> body, outcome |-> h.outcome,
                                 before |-> r.self])

Re_open_message ==
  /\ ~Panicked
  /\ UNCHANGED <<san_vars, win_vars>>
  /\ \E fullpath \in Paths : \E file \in FileStates(fullpath) :
       \E parsed \in ParseOutcomes(file) :
         LET r == open_message_on(Self, fullpath, file, parsed)
         IN  ReFinish(r, IF r.result.ok THEN Some(fullpath) ELSE held_from,
                      Call("open_message", fullpath, file, parsed, FALSE, "", None,
                           r.result, r.calls))

Re_set_show_file_name ==
  /\ ~Panicked
  /\ UNCHANGED <<san_vars, win_vars>>
  /\ \E show \in BOOLEAN :
       LET r == set_show_file_name_on(Self, show)
       IN  ReFinish(r, held_from,
                    Call("set_show_file_name", <<>>, "", None, show, "", None, Ok,
                         r.calls))

Re_connect_title_changed ==
  /\ ~Panicked
  /\ UNCHANGED <<san_vars, win_vars>>
  /\ \E f \in Handlers :
       LET r == connect_title_changed_on(Self, f)
       IN  ReFinish(r, held_from,
                    Call("connect_title_changed", <<>>, "", None, FALSE, f,
                         signal_title_changed, Ok, r.calls))

ReNext == Re_open_message \/ Re_set_show_file_name \/ Re_connect_title_changed

ReSpec == Init /\ [][ReNext]_vars

(***************************************************************************)
(* The window and its events                                               *)
(***************************************************************************)
\* MailViewerWindow::new, over the states the template may give the toggles
\* and the stack
WinInit ==
  /\ FacadeInit
  /\ reentry = None
  /\ san_html = <<>>
  /\ san_force = FALSE
  /\ san_once = None
  /\ san_twice = None
  /\ \E fa \in BOOLEAN, ia \in BOOLEAN, ta \in BOOLEAN, page \in {"html", "text"} :
       win = initialize(Template(fa, ia, ta, page))
  /\ wlast = Event("new", None, <<>>, <<>>, NoDecision, None)

\* the window handles an event: e is what its handler did
Handles(op, arg, e) ==
  /\ win' = e.win
  /\ wlast' = Event(op, arg, e.loads, e.alerts, NoDecision,
                    Some([html |-> win.html, loaded |-> win.web_view.loaded]))
  /\ UNCHANGED <<facade_vars, san_vars, re_vars>>

\* a click on the force-css toggle: GTK flips it, then the handler runs
on_force_css_clicked ==
  /\ ~win.aborted
  /\ LET w == [win EXCEPT !.force_css.active = ~@]
     IN  Handles("on_force_css_clicked", None, load_html(w, w.force_css.active))

on_show_text_clicked ==
  /\ ~win.aborted
  /\ LET w == [win EXCEPT !.show_text.active = ~@]
     IN  Handles("on_show_text_clicked", None,
                 Effects(on_show_text(w, w.show_text.active), <<>>, <<>>))

on_show_images_clicked ==
  /\ ~win.aborted
  /\ LET w == [win EXCEPT !.show_images.active = ~@, !.images_clicks = 1]
     IN  Handles("on_show_images_clicked", None,
                 Effects([w EXCEPT !.web_settings.auto_load_images = w.show_images.active],
                         <<>>, <<>>))

on_zoom_minus_clicked ==
  /\ ~win.aborted
  /\ win.web_view.zoom_level > 10 - MaxZoomSteps
  /\ Handles("on_zoom_minus_clicked", None,
             Effects(set_zoom_level(win, win.web_view.zoom_level - 1), <<>>, <<>>))

on_zoom_plus_clicked ==
  /\ ~win.aborted
  /\ win.web_view.zoom_level < 10 + MaxZoomSteps
  /\ Handles("on_zoom_plus_clicked", None,
             Effects(set_zoom_level(win, win.web_view.zoom_level + 1), <<>>, <<>>))

reset_zoom ==
  /\ ~win.aborted
  /\ Handles("reset_zoom", None, Effects(set_zoom_level(win, 10), <<>>, <<>>))

\* the "eml-parsed" signal: the application has a parsed message or none
on_eml_parsed ==
  /\ ~win.aborted
  /\ win.shows < MaxShows
  /\ \E eml \in {None} \cup {Some(m) : m \in WinMessages} :
       IF eml # None
       THEN Handles("show_eml", eml, show_eml(win, eml[1]))
       ELSE Handles("on_eml_parsed", None,
                    Effects(win, <<>>,
                            <<[title |-> "File Error", message |-> "No file provided"]>>))

\* the web view asks for a policy decision
decide_policy ==
  /\ ~win.aborted
  /\ \E decision_type \in PolicyDecisionTypes, navigation_action \in BOOLEAN,
        request \in BOOLEAN, uri \in {None} \cup {Some(u) : u \in Uris},
        open_ok \in BOOLEAN :
       LET d == on_decide_policy(decision_type, navigation_action, request, uri, open_ok)
       IN  /\ win' = [win EXCEPT !.aborted = d.panicked]
           /\ wlast' = Event("on_decide_policy",
                             Some([decision_type |-> decision_type,
                                   navigation_action |-> navigation_action,
                                   request |-> request, uri |-> uri]),
                             <<>>, d.alerts, d, None)
           /\ UNCHANGED <<facade_vars, san_vars, re_vars>>

WinNext ==
  \/ on_force_css_clicked
  \/ on_show_text_clicked
  \/ on_show_images_clicked
  \/ on_zoom_minus_clicked
  \/ on_zoom_plus_clicked
  \/ reset_zoom
  \/ on_eml_parsed

WinSpec == WinInit /\ [][WinNext]_vars

\* the policy decisions alone: on_decide_policy reads nothing of the window
PolicyNext == decide_policy

PolicySpec == Init /\ [][PolicyNext]_vars

(***************************************************************************)
(* The sanitizer applied to bounded inputs                                 *)
(***************************************************************************)
SanInit ==
  /\ FacadeInit
  /\ reentry = None
  /\ WinIdle
  /\ san_html \in HtmlInputs
  /\ san_force \in BOOLEAN
  /\ san_once = None
  /\ san_twice = None

\* a render: the sanitizer runs on the body
Sanitize ==
  /\ san_once = None
  /\ san_once' = Some(sanitize(san_html, san_force))
  /\ UNCHANGED <<san_html, san_force, san_twice, facade_vars, re_vars, win_vars>>

\* the sanitizer runs on its own output, with the same force_css
SanitizeAgain ==
  /\ san_once # None
  /\ san_twice = None
  /\ san_twice' = Some(sanitize(san_once[1], san_force))
  /\ UNCHANGED <<san_html, san_force, san_once, facade_vars, re_vars, win_vars>>

SanNext == Sanitize \/ SanitizeAgain

SanSpec == SanInit /\ [][SanNext]_vars

(***************************************************************************)
(* Claims about the facade                                                 *)
(***************************************************************************)
\* the last call was open_message on a path that does not exist
LastOpenMissing == last.op = "open_message" /\ last.file = "missing"

\* the last call was an open_message that returned Ok
LastOpenOk == last.op = "open_message" /\ last.result.ok

\* C1: open_message on a path that does not exist returns an error, leaves
\* every accessor result, the path get_fullpath returns and the show-filename
\* preference as they were before the call, and runs no callback.
C1_MissingPathChangesNothing ==
  [][LastOpenMissing' =>
       /\ ~last'.result.ok
       /\ Accessors(Self)' = Accessors(Self)
       /\ get_fullpath(Self)' = get_fullpath(Self)
       /\ show_file_name' = show_file_name
       /\ last'.calls = <<>>]_vars

\* C1 witness: a not-found open made while a message from another path is
\* held and an observer is registered
C1_Witness ==
  /\ LastOpenMissing
  /\ parser # None
  /\ signal_title_changed # None
  /\ full_path # Some(last.fullpath)

\* C2: with an observer registered, a successful open_message runs the
\* observer exactly once, after the held message was replaced: the handler
\* reads the fields of the message just parsed and the new path, and the
\* title it is passed is derived from the path just opened.
C2_OpenNotifiesAfterReplace ==
  (LastOpenOk /\ signal_title_changed # None) =>
    /\ Len(last.calls) = 1
    /\ last.calls[1].handler = signal_title_changed[1]
    /\ last.calls[1].seen.from = last.parsed[1].from
    /\ last.calls[1].seen.to = last.parsed[1].to
    /\ last.calls[1].seen.subject = last.parsed[1].subject
    /\ last.calls[1].seen.date = last.parsed[1].date
    /\ last.calls[1].seen.body_text = last.parsed[1].body_text
    /\ last.calls[1].seen.body_html = last.parsed[1].body_html
    /\ last.calls[1].seen.attachments = last.parsed[1].attachments
    /\ last.calls[1].seen.fullpath = Some(last.fullpath)
    /\ last.calls[1].seen = Accessors(Self)
    /\ last.calls[1].title =
         (IF show_file_name THEN file_name(last.fullpath)[1] ELSE AppTitle)

\* C2 witness: a second message replaced a first one under a registered
\* observer, the file name shown differing from the path
C2_Witness ==
  /\ LastOpenOk
  /\ signal_title_changed # None
  /\ show_file_name
  /\ last.parsed = Some(PlainMessage)
  /\ last.fullpath = <<"/", "a">>
  /\ last.calls[1].title = <<"a">>

\* C3 as stated: with an observer registered, every successful open_message
\* and every set_show_file_name call runs the observer exactly once, also a
\* setter call made before any file was opened.
C3_SetterAndOpenNotifyOnce ==
  (signal_title_changed # None /\ (LastOpenOk \/ last.op = "set_show_file_name")) =>
    Len(last.calls) = 1

\* C3 amended: with an observer registered, every successful open_message
\* runs the observer exactly once, and every set_show_file_name call runs it
\* exactly once if a path is stored (get_fullpath is Some) and not at all
\* if none is, as for a setter call made before any open of an existing file.
C3_NotifyOnceWhenPathStored ==
  signal_title_changed # None =>
    /\ LastOpenOk => Len(last.calls) = 1
    /\ last.op = "set_show_file_name" =>
         Len(last.calls) = (IF get_fullpath(Self) # None THEN 1 ELSE 0)

\* C3 witness: the setter called under a registered observer with a path
\* stored ran the observer once
C3_Witness ==
  /\ signal_title_changed # None
  /\ last.op = "set_show_file_name"
  /\ get_fullpath(Self) # None
  /\ Len(last.calls) = 1
  /\ last.calls[1].handler = signal_title_changed[1]

\* C4 as stated: a notification raised with show-filename enabled and a
\* message held passes the base name of the file the held message was
\* opened from.
C4_TitleIsHeldFileName ==
  \A i \in 1..Len(last.calls) :
    (show_file_name /\ parser # None) =>
      last.calls[i].title = file_name(held_from[1])[1]

\* C5: with show-filename disabled the derived title, and the title passed
\* in any notification, is "Mail Viewer v<VERSION>", whatever the path and
\* whether or not a message is held.
C5_DisabledGivesAppTitle ==
  ~show_file_name =>
    /\ \A p \in Paths :
         get_title(Self, p) =
           <<"M", "a", "i", "l", " ", "V", "i", "e", "w", "e", "r", " ", "v">> \o VERSION
    /\ \A i \in 1..Len(last.calls) :
         last.calls[i].title =
           <<"M", "a", "i", "l", " ", "V", "i", "e", "w", "e", "r", " ", "v">> \o VERSION

\* C5 witness: a notification raised with the preference disabled while a
\* message opened from a named file is held
C5_Witness ==
  /\ ~show_file_name
  /\ parser # None
  /\ Len(last.calls) = 1
  /\ file_name(full_path[1]) # None

\* C6 as stated: while no open_message has succeeded, open_message raises
\* no notification and a notification raised by the setter carries the
\* application title, never a file name.
C6_NoMessageNoFileNameTitle ==
  held_from = None =>
    /\ (last.op = "open_message" => last.calls = <<>>)
    /\ (last.op = "set_show_file_name" =>
          \A i \in 1..Len(last.calls) : last.calls[i].title = AppTitle)

\* C7: as long as no open_message has succeeded, from, to, subject and date
\* are empty, body_text and body_html are None and attachments is empty; a
\* fresh facade holds no message and no path and has show-filename enabled.
C7_DefaultsUntilFirstSuccess ==
  /\ held_from = None =>
       /\ from(Self) = ""
       /\ to(Self) = ""
       /\ subject(Self) = ""
       /\ date(Self) = ""
       /\ body_text(Self) = None
       /\ body_html(Self) = None
       /\ attachments(Self) = <<>>
  /\ last.op = "new" =>
       /\ parser = None
       /\ full_path = None
       /\ show_file_name = TRUE

\* C7 witness: no open has succeeded, but an open of an existing file has
\* failed and the preference was changed since
C7_Witness ==
  /\ held_from = None
  /\ full_path # None
  /\ last.op = "set_show_file_name"
  /\ ~show_file_name

\* C8: the error of open_message on a missing path p reads
\* "File not found : " followed by p, so it contains p literally.
C8_NotFoundTextNamesPath ==
  LastOpenMissing =>
    /\ ~last.result.ok
    /\ last.result.msg =
         <<"F", "i", "l", "e", " ", "n", "o", "t", " ", "f", "o", "u", "n", "d", " ", ":", " ">>
           \o last.fullpath
    /\ Contains(last.result.msg, last.fullpath)

\* C8 witness: a not-found open of a path with a directory part
C8_Witness ==
  /\ LastOpenMissing
  /\ last.fullpath = <<"/", "a">>

\* C10 as stated: the path get_fullpath returns is the path the held
\* message was parsed from, and it is None exactly when no message is held.
C10_PathIsHeldMessagePath ==
  /\ get_fullpath(Self) = held_from
  /\ (get_fullpath(Self) = None <=> parser = None)

\* the last call was open_message on an existing file whose parse failed
LastOpenUnparsable == last.op = "open_message" /\ last.file = "unparsable"

\* C11: open_message on an existing file whose parse fails returns the
\* parse error, runs no callback and leaves the held message intact: each of
\* from, to, subject, date, body_text, body_html, attachments returns after
\* the call what it returned before.
C11_FailedParseKeepsMessage ==
  [][LastOpenUnparsable' =>
       /\ ~last'.result.ok
       /\ last'.result.msg = ParseErrorText(last'.fullpath)
       /\ last'.calls = <<>>
       /\ HeldMessage(Self)' = HeldMessage(Self)
       /\ parser' = parser]_vars

\* C11 witness: a parse failed while a message was held and an observer
\* registered
C11_Witness ==
  /\ LastOpenUnparsable
  /\ parser = Some(SampleMessage)
  /\ signal_title_changed # None
  /\ held_from # Some(last.fullpath)

\* C12: the observer slot holds one handler at most: connect_title_changed
\* puts its handler in place of the one registered before, every
\* notification runs the handler registered last, once, and no other, and
\* with no handler registered no call raises a notification.
C12_SingleObserverSlot ==
  /\ Len(last.calls) <= 1
  /\ \A i \in 1..Len(last.calls) :
       signal_title_changed = Some(last.calls[i].handler)
  /\ signal_title_changed = None => last.calls = <<>>
  /\ last.op = "connect_title_changed" => signal_title_changed = Some(last.handler)

\* C12 witness: g was registered over f
C12_Witness ==
  /\ last.op = "connect_title_changed"
  /\ last.slot = Some("f")
  /\ last.handler = "g"
  /\ signal_title_changed = Some("g")

\* C12 witness, continued: a later notification ran g
C12_WitnessNotified ==
  /\ signal_title_changed = Some("g")
  /\ last.op = "set_show_file_name"
  /\ Len(last.calls) = 1
  /\ last.calls[1].handler = "g"

\* C13: set_show_file_name changes the preference only: held message,
\* stored path and registered observer are as before and nothing is parsed;
\* connect_title_changed changes the observer slot only and raises no
\* notification.
C13_SetterAndConnectFrame ==
  [][/\ last'.op = "set_show_file_name" =>
          /\ show_file_name' = last'.flag
          /\ parser' = parser
          /\ HeldMessage(Self)' = HeldMessage(Self)
          /\ full_path' = full_path
          /\ signal_title_changed' = signal_title_changed
          /\ last'.parsed = None
     /\ last'.op = "connect_title_changed" =>
          /\ signal_title_changed' = Some(last'.handler)
          /\ parser' = parser
          /\ full_path' = full_path
          /\ show_file_name' = show_file_name
          /\ last'.calls = <<>>]_vars

\* C13 witness: the setter turned the preference off with a message held,
\* a path stored and an observer registered
C13_Witness ==
  /\ last.op = "set_show_file_name"
  /\ ~last.flag
  /\ ~show_file_name
  /\ parser # None
  /\ full_path # None
  /\ signal_title_changed # None

\* C13 witness, continued: a handler was connected with a path stored
C13_WitnessConnect ==
  /\ last.op = "connect_title_changed"
  /\ full_path # None
  /\ parser # None

\* C14: while a handler runs, the observer slot and the stored path are
\* under a shared borrow: a handler that calls open_message with an existing
\* path, or connect_title_changed, panics on the borrow conflict with the
\* facade as it was when the handler started; a handler that only reads
\* the accessors and get_fullpath completes.
C14_ReentryPanicsBeforeWrite ==
  reentry # None =>
    /\ reentry[1].body \in {"open_unparsable", "open_parsable", "connect"} =>
         /\ reentry[1].outcome = "panicked"
         /\ Self = reentry[1].before
    /\ reentry[1].body = "read" =>
         /\ reentry[1].outcome = "completed"
         /\ Self = reentry[1].before
         /\ last.calls[1].seen = Accessors(Self)

\* C14 witness: inside a successful open, the handler called open_message
\* on a file that parses, and panicked with the outer open's message held
C14_Witness ==
  /\ reentry # None
  /\ reentry[1].body = "open_parsable"
  /\ reentry[1].outcome = "panicked"
  /\ LastOpenOk
  /\ parser = Some(SampleMessage)
  /\ full_path # Some(ReentryPath)

(***************************************************************************)
(* Claims about the sanitizer                                              *)
(***************************************************************************)
\* C9: the sanitizer is idempotent for a fixed force_css:
\* sanitize(sanitize(x, f), f) = sanitize(x, f) for every input x, f in
\* {TRUE, FALSE}.
C9_SanitizeIdempotent ==
  san_twice # None => san_twice = san_once

\* C9 witness: with force_css set, an input with a script, a style and an
\* unclosed element was changed by the first pass and sanitized again
C9_Witness ==
  /\ san_twice # None
  /\ san_force
  /\ san_html = <<"<div>", "<style>x</style>", "<script>">>
  /\ san_once = Some(<<BaselineStyle, "<div>", "</div>">>)

(***************************************************************************)
(* Claims about the window                                                 *)
(***************************************************************************)
\* the last event was a navigation or new-window policy decision that
\* carried a navigation action with a request
LastDecisionOnRequest ==
  /\ wlast.op = "on_decide_policy"
  /\ wlast.arg[1].decision_type \in {"NavigationAction", "NewWindowAction"}
  /\ wlast.arg[1].navigation_action
  /\ wlast.arg[1].request

\* C15: a navigation or new-window decision with a navigation action whose
\* request's URI does not start with "about:" is ignored and handled here,
\* and the URI, when there is one, goes to the external opener; a URI that
\* starts with "about:" is left to default handling and nothing is opened.
C15_OnlyAboutStaysInView ==
  LastDecisionOnRequest =>
    LET uri == wlast.arg[1].uri
        d   == wlast.decision
    IN  IF uri # None /\ StartsWith(uri[1], AboutPrefix)
        THEN ~d.handled /\ ~d.ignored /\ d.opened = None
        ELSE d.handled /\ d.ignored /\ d.opened = uri

C15_Witness ==
  /\ LastDecisionOnRequest
  /\ wlast.arg[1].uri = Some(<<"x">> \o AboutPrefix)
  /\ wlast.decision.ignored
  /\ wlast.decision.opened = wlast.arg[1].uri

\* C16: in every state of the window JavaScript is disabled, and images
\* load automatically only if there was a show-images click and the toggle
\* is active as the most recent click left it.
C16_ScriptOffImagesOnlyOnClick ==
  /\ win.web_settings.enable_javascript = FALSE
  /\ win.web_settings.auto_load_images =>
       win.images_clicks >= 1 /\ win.show_images.active

C16_Witness ==
  /\ wlast.op = "on_show_images_clicked"
  /\ win.web_settings.auto_load_images
  /\ win.show_images.active
  /\ ~win.web_settings.enable_javascript

\* C17: what the web view holds, and every document an event loads into
\* it, is the sanitizer's output for the original HTML body of the message,
\* made with force_css FALSE on first display and with the state of the
\* force-css toggle on a click; the stored HTML stays the original body.
C17_LoadsSanitizedOriginal ==
  /\ win.html = win.source_html
  /\ \A i \in 1..Len(wlast.loads) :
       /\ win.source_html # None
       /\ wlast.loads[i].force_css =
            (IF wlast.op = "show_eml" THEN FALSE ELSE win.force_css.active)
       /\ wlast.loads[i].doc = sanitize(win.source_html[1], wlast.loads[i].force_css)
       /\ win.web_view.loaded = Some(wlast.loads[i].doc)
  /\ win.web_view.loaded # None =>
       /\ win.source_html # None
       /\ \E f \in BOOLEAN : win.web_view.loaded[1] = sanitize(win.source_html[1], f)

\* force-css was switched off again over a body with styles of its own
C17_Witness ==
  /\ wlast.op = "on_force_css_clicked"
  /\ ~win.force_css.active
  /\ win.source_html = Some(<<"<div>", "<style>x</style>", "<script>">>)
  /\ win.web_view.loaded = Some(<<"<div>", "<style>x</style>", "</div>">>)
  /\ wlast.before[1].loaded = Some(<<BaselineStyle, "<div>", "</div>">>)

\* C18: once the window has stored an HTML body no event changes it; the
\* first show_eml of a message with an HTML body stores that body; a later
\* show_eml of a message with an HTML body aborts and loads nothing; a
\* force-css click with no HTML stored loads nothing and raises the
\* "HTML not set" alert.
C18_HtmlWriteOnce ==
  wlast.before # None =>
    LET before == wlast.before[1]
    IN  /\ before.html # None => win.html = before.html
        /\ wlast.op = "show_eml" /\ wlast.arg[1].body_html # None =>
             IF before.html # None
             THEN /\ win.aborted
                  /\ wlast.loads = <<>>
                  /\ win.web_view.loaded = before.loaded
             ELSE /\ ~win.aborted
                  /\ win.html = wlast.arg[1].body_html
        /\ wlast.op = "on_force_css_clicked" /\ before.html = None =>
             /\ wlast.loads = <<>>
             /\ win.web_view.loaded = None
             /\ wlast.alerts = <<[title |-> "Error", message |-> "HTML not set"]>>

C18_Witness ==
  /\ wlast.op = "show_eml"
  /\ win.aborted
  /\ wlast.before[1].html # None
  /\ wlast.arg[1].body_html # None
  /\ wlast.arg[1].body_html # win.html

C18_WitnessNotSet ==
  /\ wlast.op = "on_force_css_clicked"
  /\ win.html = None
  /\ wlast.alerts # <<>>

\* the four controls of the HTML view are visible exactly when the stack
\* shows the page "html"
ControlsFollowStack ==
  \A visible \in {win.show_images.visible, win.force_css.visible,
                  win.zoom_minus.visible, win.zoom_plus.visible} :
    visible = (win.stack = "html")

\* C19: after a show_eml that returns, the show-text toggle is hidden if
\* the message has exactly one of the two bodies, and a message with a text
\* body and no HTML body is on the page "text"; after on_show_text the
\* controls of the HTML view are visible exactly on the page "html".
C19_BodiesDecideView ==
  /\ wlast.op = "show_eml" /\ ~win.aborted =>
       LET has_text == wlast.arg[1].body_text # None
           has_html == wlast.arg[1].body_html # None
       IN  /\ has_text # has_html => ~win.show_text.visible
           /\ has_text /\ ~has_html => win.stack = "text" /\ ControlsFollowStack
  /\ wlast.op = "on_show_text_clicked" => ControlsFollowStack

C19_Witness ==
  /\ wlast.op = "show_eml"
  /\ wlast.arg[1].body_text # None
  /\ wlast.arg[1].body_html = None
  /\ win.stack = "text"
  /\ ~win.show_text.visible
  /\ ~win.zoom_plus.visible

C19_WitnessToggle ==
  /\ wlast.op = "on_show_text_clicked"
  /\ win.stack = "html"
  /\ win.zoom_minus.visible

====
